---- MODULE Spec2Model ----
(***************************************************************************)
(* Model of gnome-l10n: the stats cache (api.py save_cache / load_cache),  *)
(* the fetch pipeline (api.py fetch_all_stats) and the sync orchestration  *)
(* of the main window (main.py MainWindow._load_stats and its callers).    *)
(*                                                                         *)
(* Threads: the GTK main thread runs the signal handlers and the idle      *)
(* callbacks; every cache-missing _load_stats starts one worker thread     *)
(* running do_load.  Workers talk to the main thread only through          *)
(* GLib.idle_add, modelled as the FIFO idleQueue.                          *)
(***************************************************************************)
EXTENDS Integers, Sequences, FiniteSets, TLC

(***************************************************************************)
(* Bounds of the model.                                                    *)
(***************************************************************************)
\* worker threads (cache-missing _load_stats calls) in one run
MaxSyncs == 2
\* modules listed by the remote service for one release
MaxModules == 2
\* clock range, age range and entry count of the stand-alone cache runs
MaxNow == 2
MaxAge == 1
MaxEntries == 2
\* entries of the stats set of the stand-alone view runs
MaxRows == 2

(***************************************************************************)
(* Program constants.                                                      *)
(***************************************************************************)
\* DEFAULT_SETTINGS["cache_ttl"]
CacheTtl == 3600

DefaultRelease == "gnome-49"
DefaultLanguage == "sv"

\* the releases the release dropdown offers and the languages of LANGUAGES
Releases == {"gnome-49", "gnome-48"}
Languages == {"sv", "de"}

Keys == Releases \X Languages
NoKey == <<"", "">>

(***************************************************************************)
(* Python values.                                                          *)
(***************************************************************************)
\* Optional[list]: None, or a list
None == [some |-> FALSE, val |-> <<>>]
Some(x) == [some |-> TRUE, val |-> x]

\* what dict.get(key) gives for a missing key; no release or language equals it
PyNone == "<None>"

\* dict.get(key, default)
Get(d, key, default) == IF key \in DOMAIN d THEN d[key] ELSE default

\* truth value of an Optional[list]: None and [] are both false
Truthy(x) == x.some /\ Len(x.val) > 0

(***************************************************************************)
(* ModuleStats (api.py).                                                   *)
(***************************************************************************)
FieldNames ==
    {"module", "branch", "domain", "language", "translated", "fuzzy",
     "untranslated", "state", "po_file", "pot_file"}

\* the dataclass constructor with its defaults
ModuleStats(mo, br, dm, la, tr, fu, un, st, po, pt) ==
    [module |-> mo, branch |-> br, domain |-> dm, language |-> la,
     translated |-> tr, fuzzy |-> fu, untranslated |-> un, state |-> st,
     po_file |-> po, pot_file |-> pt]

\* asdict losing the state field
asdict_NoState(s) == [k \in FieldNames \ {"state"} |-> s[k]]

\* dataclasses.asdict(s): one key per field
asdict(s) == [k \in FieldNames |-> s[k]]

\* ModuleStats(**s) accepts s: no unknown keyword, both required ones given
KwargsOk(s) == DOMAIN s \subseteq FieldNames /\ {"module", "branch"} \subseteq DOMAIN s

\* ModuleStats(**s) for an accepted s
FromKwargs(s) ==
    ModuleStats(s["module"], s["branch"], Get(s, "domain", "po"),
                Get(s, "language", "sv"), Get(s, "translated", 0),
                Get(s, "fuzzy", 0), Get(s, "untranslated", 0),
                Get(s, "state", ""), Get(s, "po_file", ""),
                Get(s, "pot_file", ""))

(***************************************************************************)
(* The cache file (api.py CACHE_FILE): absent, a JSON document, or the     *)
(* bytes an unfinished or overlapping write left behind.                   *)
(***************************************************************************)
Absent == [kind |-> "absent"]
Truncated == [kind |-> "truncated"]
Garbled == [kind |-> "garbled"]
Json(data) == [kind |-> "json", data |-> data]

\* the dict save_cache builds
CacheData(r, l, stats, t) ==
    [release |-> r, language |-> l, timestamp |-> t,
     stats |-> [k \in 1..Len(stats) |-> asdict(stats[k])]]

\* save_cache(release, language, stats) at time t, as one whole write
save_cache(r, l, stats, t) == Json(CacheData(r, l, stats, t))

\* load_cache taking a record of age max_age for stale
load_cache_GE(f, r, l, max_age, t) ==
    IF f.kind = "absent" THEN None
    ELSE IF f.kind # "json" THEN None
    ELSE IF Get(f.data, "release", PyNone) # r \/ Get(f.data, "language", PyNone) # l
         THEN None
    ELSE IF t - Get(f.data, "timestamp", 0) >= max_age THEN None
    ELSE IF \E k \in 1..Len(Get(f.data, "stats", <<>>)) :
                ~KwargsOk(Get(f.data, "stats", <<>>)[k])
         THEN None
    ELSE Some([k \in 1..Len(Get(f.data, "stats", <<>>)) |->
                 FromKwargs(Get(f.data, "stats", <<>>)[k])])

\* load_cache comparing the release alone
load_cache_AnyLanguage(f, r, l, max_age, t) ==
    IF f.kind = "absent" THEN None
    ELSE IF f.kind # "json" THEN None
    ELSE IF Get(f.data, "release", PyNone) # r THEN None
    ELSE IF t - Get(f.data, "timestamp", 0) > max_age THEN None
    ELSE IF \E k \in 1..Len(Get(f.data, "stats", <<>>)) :
                ~KwargsOk(Get(f.data, "stats", <<>>)[k])
         THEN None
    ELSE Some([k \in 1..Len(Get(f.data, "stats", <<>>)) |->
                 FromKwargs(Get(f.data, "stats", <<>>)[k])])

\* load_cache(release, language, max_age) at time t on file content f
load_cache(f, r, l, max_age, t) ==
    IF f.kind = "absent" THEN None
    ELSE IF f.kind # "json" THEN None
    ELSE IF Get(f.data, "release", PyNone) # r \/ Get(f.data, "language", PyNone) # l
         THEN None
    ELSE IF t - Get(f.data, "timestamp", 0) > max_age THEN None
    ELSE IF \E k \in 1..Len(Get(f.data, "stats", <<>>)) :
                ~KwargsOk(Get(f.data, "stats", <<>>)[k])
         THEN None
    ELSE Some([k \in 1..Len(Get(f.data, "stats", <<>>)) |->
                 FromKwargs(Get(f.data, "stats", <<>>)[k])])

(***************************************************************************)
(* The remote service, as the client sees it.  A response is the exception *)
(* _fetch_json raised, a JSON document that is no object, or an object.    *)
(***************************************************************************)
HttpError == [kind |-> "error"]
NotObject == [kind |-> "array"]
Object(d) == [kind |-> "object", obj |-> d]

ModuleName(k) ==
    CASE k = 1 -> "gtk" [] k = 2 -> "Nautilus" [] k = 3 -> "glib"
      [] OTHER -> "gnome-shell"

\* the stats resource path of module k of release r in language l
StatsPath(k, r, l) == <<ModuleName(k), r, l>>
NoPath == <<>>

\* module k of the list of release r, language l, with or without a stats
\* path
ListedModule(k, r, l, has_path) ==
    IF has_path
    THEN [module |-> ModuleName(k), branch |-> r, stats |-> StatsPath(k, r, l)]
    ELSE [module |-> ModuleName(k), branch |-> r]

\* the responses to GET releases/{r}/languages/{l}, the service listing
\* Len(shape) modules, module k with a stats path iff shape[k]
ReleaseStatsResponses(r, l, shape) ==
    {HttpError, NotObject, Object([language |-> l]),
     Object([language |-> l,
             modules |-> [k \in 1..Len(shape) |-> ListedModule(k, r, l, shape[k])]])}

\* the detail document of a stats path: complete for the first module,
\* without identity and state and with a count below zero for the second,
\* without statistics otherwise
DetailDocument(path) ==
    CASE path[1] = ModuleName(1) ->
            [module |-> path[1], branch |-> path[2], domain |-> "po",
             language |-> path[3], state |-> "Translated",
             po_file |-> "/POT/a.po", pot_file |-> "/POT/a.pot",
             statistics |-> [trans |-> 10, fuzzy |-> 0, untrans |-> 0]]
      [] path[1] = ModuleName(2) ->
            [statistics |-> [trans |-> 3, fuzzy |-> -1]]
      [] OTHER ->
            [module |-> path[1], branch |-> path[2], domain |-> "po-doc",
             state |-> ""]

\* the responses to GET of a stats path
DetailResponses(path) == {HttpError, NotObject, Object(DetailDocument(path))}

\* the body of the try block of fetch_all_stats for listed module m and
\* response d: the ModuleStats built, or None when anything raised
DetailStats(m, d, l) ==
    IF d.kind # "object" THEN None
    ELSE Some(<<ModuleStats(
             Get(d.obj, "module", Get(m, "module", "")),
             Get(d.obj, "branch", Get(m, "branch", "")),
             Get(d.obj, "domain", "po"),
             l,
             Get(Get(d.obj, "statistics", <<>>), "trans", 0),
             Get(Get(d.obj, "statistics", <<>>), "fuzzy", 0),
             Get(Get(d.obj, "statistics", <<>>), "untrans", 0),
             Get(d.obj, "state", ""),
             Get(d.obj, "po_file", ""),
             Get(d.obj, "pot_file", ""))>>)

(***************************************************************************)
(* Python str operations.  A str is named by a TLA+ string; Chars gives    *)
(* its characters, on which lower, strip, in and < work as in Python.      *)
(***************************************************************************)
Chars(str) ==
    CASE str = "" -> <<>>
      [] str = " " -> <<" ">>
      [] str = "N" -> <<"N">>
      [] str = " li " -> <<" ", "l", "i", " ">>
      [] str = "gtk" -> <<"g", "t", "k">>
      [] str = "Nautilus" -> <<"N", "a", "u", "t", "i", "l", "u", "s">>
      [] str = "glib" -> <<"g", "l", "i", "b">>
      [] str = "gnome-shell" -> <<"g", "n", "o", "m", "e", "-", "s", "h", "e", "l", "l">>
      [] str = "Translated" -> <<"T", "r", "a", "n", "s", "l", "a", "t", "e", "d">>
      [] str = "translated" -> <<"t", "r", "a", "n", "s", "l", "a", "t", "e", "d">>
      [] str = "proofread" -> <<"p", "r", "o", "o", "f", "r", "e", "a", "d">>
      [] str = "zzz" -> <<"z", "z", "z">>
      [] str = "zzzz" -> <<"z", "z", "z", "z">>

UpperCase ==
    <<"A", "B", "C", "D", "E", "F", "G", "H", "I", "J", "K", "L", "M",
      "N", "O", "P", "Q", "R", "S", "T", "U", "V", "W", "X", "Y", "Z">>
LowerCase ==
    <<"a", "b", "c", "d", "e", "f", "g", "h", "i", "j", "k", "l", "m",
      "n", "o", "p", "q", "r", "s", "t", "u", "v", "w", "x", "y", "z">>

\* the characters of the model in code point order
CodePoints == <<" ", "-">> \o UpperCase \o LowerCase

CharSet == {CodePoints[i] : i \in 1..Len(CodePoints)}

\* ord(c), up to the gaps between the characters of the model
OrdTable == [c \in CharSet |-> CHOOSE i \in 1..Len(CodePoints) : CodePoints[i] = c]
Ord(c) == OrdTable[c]

\* c.lower() for a character c
LowerChar ==
    [c \in CharSet |->
        IF \E i \in 1..Len(UpperCase) : UpperCase[i] = c
        THEN LowerCase[CHOOSE i \in 1..Len(UpperCase) : UpperCase[i] = c]
        ELSE c]

\* str.lower() on characters
Lower(cs) == [k \in 1..Len(cs) |-> LowerChar[cs[k]]]

\* str.strip() on characters: the whitespace at both ends goes
Strip(cs) ==
    LET inner == {k \in 1..Len(cs) : cs[k] # " "}
    IN  IF inner = {} THEN <<>>
        ELSE SubSeq(cs, CHOOSE k \in inner : \A j \in inner : k <= j,
                        CHOOSE k \in inner : \A j \in inner : k >= j)

\* needle in hay
Contains(hay, needle) ==
    \E i \in 1..(Len(hay) - Len(needle) + 1) :
        SubSeq(hay, i, i + Len(needle) - 1) = needle

\* a < b on strs: the first differing character decides, a proper prefix
\* is smaller
StrLess(a, b) ==
    \E i \in 1..(Len(b)) :
        /\ i <= Len(a) + 1
        /\ \A j \in 1..(i - 1) : a[j] = b[j]
        /\ i <= Len(a) => Ord(a[i]) < Ord(b[i])

(***************************************************************************)
(* The view model: the properties of ModuleStats (api.py), _sort_stats and *)
(* the filter of _update_view (main.py).                                   *)
(***************************************************************************)
total(s) == s.translated + s.fuzzy + s.untranslated

\* complete for an entry without strings as well
complete_IgnoresTotal(s) == s.fuzzy = 0 /\ s.untranslated = 0

complete(s) == s.fuzzy = 0 /\ s.untranslated = 0 /\ total(s) > 0

\* translated / total * 100 as the fraction num / den, or 0.0 for total 0
pct(s) ==
    IF total(s) > 0
    THEN [num |-> s.translated * 100, den |-> total(s)]
    ELSE [num |-> 0, den |-> 1]

\* pct(a) < pct(b)
PctLess(a, b) == pct(a).num * pct(b).den < pct(b).num * pct(a).den

\* (s.state or "zzz").lower()
StateKey(s) == Lower(Chars(IF s.state # "" THEN s.state ELSE "zzz"))

\* a goes before b in the order of sort key key, whatever their positions
SortsBefore(key, a, b) ==
    CASE key = "pct_asc" -> PctLess(a, b)
      [] key = "pct_desc" -> PctLess(b, a)
      [] key = "name_asc" -> StrLess(Lower(Chars(a.module)), Lower(Chars(b.module)))
      [] key = "name_desc" -> StrLess(Lower(Chars(b.module)), Lower(Chars(a.module)))
      [] key = "untrans_desc" -> a.untranslated > b.untranslated
      [] key = "fuzzy_desc" -> a.fuzzy > b.fuzzy
      [] key = "total_desc" -> total(a) > total(b)
      [] key = "state" -> StrLess(StateKey(a), StateKey(b))
      [] OTHER -> FALSE

\* sorted() putting equals in reverse order
Position_TiesReversed(stats, key, k) ==
    1 + Cardinality({j \in 1..Len(stats) :
                        \/ SortsBefore(key, stats[j], stats[k])
                        \/ (j > k /\ ~SortsBefore(key, stats[k], stats[j]))})

\* where sorted() puts stats[k]: after everything that goes before it and
\* after the earlier ones of its equals (sorted is stable, also reversed)
Position(stats, key, k) ==
    1 + Cardinality({j \in 1..Len(stats) :
                        \/ SortsBefore(key, stats[j], stats[k])
                        \/ (j < k /\ ~SortsBefore(key, stats[k], stats[j]))})

\* _sort_stats(stats) for self._sort_key = key
sort_stats(stats, key) ==
    [p \in 1..Len(stats) |->
        stats[CHOOSE k \in 1..Len(stats) : Position(stats, key, k) = p]]

\* the query of _update_view: the search text, lowered and stripped, when
\* the search button is active
Query(text, active) == IF active THEN Strip(Lower(Chars(text))) ELSE <<>>

\* update_view matching the names as they are written
Shown_CaseSensitive(s, mode, query) ==
    /\ CASE mode = "incomplete" -> ~complete(s)
         [] mode = "complete" -> complete(s)
         [] mode = "fuzzy" -> s.fuzzy > 0
         [] mode = "state_translated" ->
                s.state # "" /\ Lower(Chars(s.state)) = Chars("translated")
         [] OTHER -> TRUE
    /\ query # <<>> => Contains(Chars(s.module), query)

\* update_view taking an entry for complete when nothing is untranslated
Shown_CompleteByUntranslated(s, mode, query) ==
    /\ CASE mode = "incomplete" -> ~complete(s)
         [] mode = "complete" -> s.untranslated = 0 /\ total(s) > 0
         [] mode = "fuzzy" -> s.fuzzy > 0
         [] mode = "state_translated" ->
                s.state # "" /\ Lower(Chars(s.state)) = Chars("translated")
         [] OTHER -> TRUE
    /\ query # <<>> => Contains(Lower(Chars(s.module)), query)

\* s passes the two filters of _update_view
Shown(s, mode, query) ==
    /\ CASE mode = "incomplete" -> ~complete(s)
         [] mode = "complete" -> complete(s)
         [] mode = "fuzzy" -> s.fuzzy > 0
         [] mode = "state_translated" ->
                s.state # "" /\ Lower(Chars(s.state)) = Chars("translated")
         [] OTHER -> TRUE
    /\ query # <<>> => Contains(Lower(Chars(s.module)), query)

\* the list filtered of _update_view before it is sorted
filtered(stats, mode, query) ==
    LET Passes(s) == Shown(s, mode, query)
    IN  SelectSeq(stats, Passes)

\* the rows _update_view puts into the listbox
update_view(stats, mode, query, key) == sort_stats(filtered(stats, mode, query), key)

\* sum(s.field for s in stats)
SumField(stats, field) ==
    LET acc[n \in 0..Len(stats)] ==
            IF n = 0 THEN 0 ELSE acc[n - 1] + stats[n][field]
    IN  acc[Len(stats)]

\* what _update_view writes into summary_label and summary_progress: the
\* four numbers of the label, and pct as the fraction num / den of the
\* text "pct% (total_trans/total_all)"
Summary(stats) ==
    LET total_trans == SumField(stats, "translated")
        total_fuzzy == SumField(stats, "fuzzy")
        total_untrans == SumField(stats, "untranslated")
        total_all == total_trans + total_fuzzy + total_untrans
    IN  [modules |-> Len(stats),
         complete |-> Cardinality({k \in 1..Len(stats) : complete(stats[k])}),
         total_fuzzy |-> total_fuzzy,
         total_untrans |-> total_untrans,
         total_trans |-> total_trans,
         total_all |-> total_all,
         pct |-> IF total_all > 0
                 THEN [num |-> total_trans * 100, den |-> total_all]
                 ELSE [num |-> 0, den |-> 1]]

(***************************************************************************)
(* State.                                                                  *)
(***************************************************************************)
VARIABLES
    self_release,    \* MainWindow._release
    self_language,   \* MainWindow._language
    self_stats,      \* MainWindow._stats
    has_releases,    \* hasattr(self, '_releases')
    spinner,         \* "hidden", "spinning" or "stopped"
    progress_label,  \* [visible, text]
    status_label,    \* "loading", "error" or "view"
    cacheFile,       \* content of CACHE_FILE
    now,             \* time.time()
    threads,         \* the do_load worker threads, by start order
    idleQueue,       \* callbacks handed to GLib.idle_add, not yet run
    listed,          \* the remote service: which listed modules have a stats path
    cacheOp,         \* history: the last stand-alone cache operation
    filter_mode,     \* MainWindow._filter_mode
    sort_key,        \* MainWindow._sort_key
    search_text,     \* search_entry.get_text()
    search_active,   \* search_btn.get_active()
    listbox,         \* the ModuleStats of the rows of the listbox
    summary          \* what summary_label and summary_progress show, if set

vars ==
    <<self_release, self_language, self_stats, has_releases, spinner,
      progress_label, status_label, cacheFile, now, threads,
      idleQueue, listed, cacheOp,
      filter_mode, sort_key, search_text, search_active, listbox, summary>>

\* the view as __init__ leaves it: no filter, no search, by percentage
DefaultView ==
    /\ filter_mode = "all"
    /\ sort_key = "pct_asc"
    /\ search_text = ""
    /\ search_active = FALSE
    /\ listbox = <<>>
    /\ summary = None

ViewInputsUnchanged == UNCHANGED <<filter_mode, sort_key, search_text, search_active>>

ViewUnchanged ==
    UNCHANGED <<filter_mode, sort_key, search_text, search_active, listbox, summary>>

\* _update_view summing up the rows it shows
UpdateView_SummaryOfShown(stats, mode, query, key) ==
    /\ listbox' = update_view(stats, mode, query, key)
    /\ summary' = Some(Summary(update_view(stats, mode, query, key)))

\* _update_view() on self._stats = stats: the rows and the summary
UpdateView(stats, mode, query, key) ==
    /\ listbox' = update_view(stats, mode, query, key)
    /\ summary' = Some(Summary(stats))

SyncIds == 1..MaxSyncs

\* the text "Loading module statistics..." and the text of progress(c, t)
LoadingText == <<0, 0>>
ProgressText(c, t) == <<c, t>>

\* a thread that was not started yet
NoThread ==
    [pc |-> "idle", req |-> NoKey, args |-> NoKey, modules |-> <<>>, i |-> 0,
     results |-> <<>>, data |-> <<>>, orphan |-> FALSE,
     log |-> <<>>, progress |-> <<>>, shown |-> <<>>, abandonedAt |-> -1,
     nList |-> 0, nDetail |-> 0, nWrite |-> 0, nErr |-> 0, nLoaded |-> 0]

Started(th) == {w \in SyncIds : th[w].pc # "idle"}
InFlight(th) == {w \in SyncIds : th[w].pc \notin {"idle", "done", "failed"}}

\* prev: the operation before op, prevKey: its key if it was a write;
\* lastKey, lastEntries, lastTime: the most recent write; overwritten: the
\* key of the write before it, if no unlink came between the two;
\* invalidated: the file was unlinked and not written since
NoCacheOp ==
    [op |-> "none", key |-> NoKey, max_age |-> 0, entries |-> <<>>,
     result |-> None, prev |-> "none", prevKey |-> NoKey,
     lastKey |-> NoKey, lastEntries |-> <<>>, lastTime |-> 0,
     overwritten |-> NoKey, invalidated |-> FALSE]

\* entries of earlier syncs
EntryA ==
    ModuleStats("gtk", "gnome-49", "po", "sv", 10, 0, 0, "Translated", "/POT/a.po", "/POT/a.pot")
EntryB ==
    ModuleStats("Nautilus", "gnome-49", "po", "sv", 3, 1, 2, "", "", "")

\* the clock when the window opens
StartTime == CacheTtl + 1

\* what an earlier run of the program may have left in the cache file:
\* nothing, or the record, written 10 s ago, of a sync that got no entry
PriorCaches ==
    {Absent, save_cache(DefaultRelease, DefaultLanguage, <<>>, StartTime - 10)}

Init ==
    /\ self_release = DefaultRelease
    /\ self_language = DefaultLanguage
    /\ self_stats = <<>>
    /\ has_releases = FALSE
    /\ spinner = "hidden"
    /\ progress_label = [visible |-> FALSE, text |-> <<>>]
    /\ status_label = "loading"
    /\ cacheFile \in PriorCaches
    /\ now = StartTime
    /\ threads = [w \in SyncIds |-> NoThread]
    /\ idleQueue = <<>>
    /\ listed = [k \in 1..MaxModules |-> TRUE]
    /\ cacheOp = NoCacheOp
    /\ DefaultView

(***************************************************************************)
(* Main thread: MainWindow.                                                *)
(***************************************************************************)
\* _on_stats_loaded(stats), with the status line _update_view writes
OnStatsLoaded(st) ==
    /\ self_stats' = st
    /\ spinner' = "hidden"
    /\ progress_label' = [progress_label EXCEPT !.visible = FALSE]
    /\ status_label' = "view"
    /\ UpdateView(st, filter_mode, Query(search_text, search_active), sort_key)

\* _load_stats() for the selection (r, l), on file content f, th being the
\* threads as the calling handler leaves them
LoadStats(r, l, f, th) ==
    LET cached == load_cache(f, r, l, CacheTtl, now)
        w == Cardinality(Started(th)) + 1
    IN  IF Truthy(cached)
        THEN /\ self_stats' = cached.val
             /\ spinner' = "hidden"
             /\ progress_label' = [visible |-> FALSE, text |-> LoadingText]
             /\ status_label' = "view"
             /\ UpdateView(cached.val, filter_mode,
                                       Query(search_text, search_active), sort_key)
             /\ threads' = th
        ELSE /\ w \in SyncIds
             /\ spinner' = "spinning"
             /\ progress_label' = [visible |-> TRUE, text |-> LoadingText]
             /\ threads' = [th EXCEPT ![w] = [NoThread EXCEPT !.pc = "start",
                                                              !.req = <<r, l>>]]
             /\ UNCHANGED <<self_stats, status_label, listbox, summary>>

\* history: the syncs in FetchingDetails that a new selection (r, l) abandons
Abandon(th, r, l) ==
    [w \in SyncIds |->
        IF th[w].pc = "details" /\ th[w].req # <<r, l>> /\ th[w].abandonedAt < 0
        THEN [th[w] EXCEPT !.abandonedAt = th[w].nDetail]
        ELSE th[w]]

\* _load_releases succeeded: _on_releases_loaded
OnReleasesLoaded ==
    /\ ~has_releases
    /\ has_releases' = TRUE
    /\ LoadStats(self_release, self_language, cacheFile, threads)
    /\ UNCHANGED <<self_release, self_language, cacheFile, now,
                   idleQueue, listed, cacheOp>>
    /\ ViewInputsUnchanged

\* _on_release_changed: the dropdown selects another release
OnReleaseChanged(r) ==
    /\ has_releases
    /\ r # self_release
    /\ self_release' = r
    /\ LoadStats(r, self_language, cacheFile, Abandon(threads, r, self_language))
    /\ UNCHANGED <<self_language, has_releases, cacheFile, now,
                   idleQueue, listed, cacheOp>>
    /\ ViewInputsUnchanged

\* _on_language_changed: the dropdown selects another language
OnLanguageChanged(l) ==
    /\ l # self_language
    /\ self_language' = l
    /\ LoadStats(self_release, l, cacheFile, Abandon(threads, self_release, l))
    /\ UNCHANGED <<self_release, has_releases, cacheFile, now,
                   idleQueue, listed, cacheOp>>
    /\ ViewInputsUnchanged

\* unlink of the cache file: a writer that has it open keeps writing into
\* the unlinked file
Unlinked(th) ==
    [w \in SyncIds |->
        IF th[w].pc = "dump" THEN [th[w] EXCEPT !.orphan = TRUE] ELSE th[w]]

\* _on_refresh
OnRefresh ==
    /\ cacheFile' = Absent
    /\ LoadStats(self_release, self_language, Absent,
                 IF cacheFile.kind = "absent" THEN threads ELSE Unlinked(threads))
    /\ UNCHANGED <<self_release, self_language, has_releases, now,
                   idleQueue, listed, cacheOp>>
    /\ ViewInputsUnchanged

\* the main loop running the newest idle callback first
RunIdle_Newest ==
    /\ idleQueue # <<>>
    /\ LET c == idleQueue[Len(idleQueue)]
       IN  /\ idleQueue' = SubSeq(idleQueue, 1, Len(idleQueue) - 1)
           /\ CASE c.cb = "progress" ->
                    /\ progress_label' = [progress_label EXCEPT !.text = ProgressText(c.cur, c.total)]
                    /\ threads' = [threads EXCEPT ![c.sync].shown = Append(@, c.cur)]
                    /\ UNCHANGED <<self_stats, spinner, status_label, listbox, summary>>
                [] c.cb = "loaded" ->
                    /\ OnStatsLoaded(c.stats)
                    /\ threads' = [threads EXCEPT ![c.sync].nLoaded = @ + 1]
                [] c.cb = "error" ->
                    /\ status_label' = "error"
                    /\ threads' = [threads EXCEPT ![c.sync].nErr = @ + 1]
                    /\ UNCHANGED <<self_stats, spinner, progress_label, listbox, summary>>
                [] OTHER ->
                    /\ spinner' = IF spinner = "hidden" THEN "hidden" ELSE "stopped"
                    /\ UNCHANGED <<self_stats, progress_label, status_label, threads, listbox, summary>>
    /\ UNCHANGED <<self_release, self_language, has_releases, cacheFile, now, listed, cacheOp>>
    /\ ViewInputsUnchanged

\* the main loop runs the oldest idle callback
RunIdle ==
    /\ idleQueue # <<>>
    /\ LET c == Head(idleQueue)
       IN  /\ idleQueue' = Tail(idleQueue)
           /\ CASE c.cb = "progress" ->
                    /\ progress_label' = [progress_label EXCEPT !.text = ProgressText(c.cur, c.total)]
                    /\ threads' = [threads EXCEPT ![c.sync].shown = Append(@, c.cur)]
                    /\ UNCHANGED <<self_stats, spinner, status_label, listbox, summary>>
                [] c.cb = "loaded" ->
                    /\ OnStatsLoaded(c.stats)
                    /\ threads' = [threads EXCEPT ![c.sync].nLoaded = @ + 1]
                [] c.cb = "error" ->
                    /\ status_label' = "error"
                    /\ threads' = [threads EXCEPT ![c.sync].nErr = @ + 1]
                    /\ UNCHANGED <<self_stats, spinner, progress_label, listbox, summary>>
                [] OTHER ->
                    /\ spinner' = IF spinner = "hidden" THEN "hidden" ELSE "stopped"
                    /\ UNCHANGED <<self_stats, progress_label, status_label, threads, listbox, summary>>
    /\ UNCHANGED <<self_release, self_language, has_releases, cacheFile, now, listed, cacheOp>>
    /\ ViewInputsUnchanged

(***************************************************************************)
(* Worker thread w: do_load of _load_stats, running fetch_all_stats and    *)
(* save_cache.                                                             *)
(***************************************************************************)
Callback(cb, w, c, t, st) == [cb |-> cb, sync |-> w, cur |-> c, total |-> t, stats |-> st]

\* do_load evaluates self._release and self._language and fetch_all_stats
\* requests the module list
ThreadStart(w) ==
    /\ threads[w].pc = "start"
    /\ threads' = [threads EXCEPT ![w].pc = "list",
                                  ![w].args = <<self_release, self_language>>,
                                  ![w].nList = @ + 1]
    /\ UNCHANGED <<self_release, self_language, self_stats, has_releases,
                   spinner, progress_label, status_label, cacheFile, now, idleQueue, listed, cacheOp>>
    /\ ViewUnchanged

\* ListResponse whose except branch also hands an empty result to
\* _on_stats_loaded
ListResponse_Partial(w) ==
    /\ threads[w].pc = "list"
    /\ \E resp \in ReleaseStatsResponses(threads[w].args[1], threads[w].args[2], listed) :
          IF resp.kind # "object"
          THEN /\ threads' = [threads EXCEPT ![w].pc = "failed"]
               /\ idleQueue' = idleQueue \o
                     <<Callback("error", w, 0, 0, <<>>),
                       Callback("spinner_stop", w, 0, 0, <<>>),
                       Callback("loaded", w, 0, 0, <<>>)>>
          ELSE /\ threads' =
                     [threads EXCEPT
                        ![w].modules = Get(resp.obj, "modules", <<>>),
                        ![w].pc = IF Len(Get(resp.obj, "modules", <<>>)) = 0
                                  THEN "save" ELSE "details"]
               /\ UNCHANGED idleQueue
    /\ UNCHANGED <<self_release, self_language, self_stats, has_releases,
                   spinner, progress_label, status_label, cacheFile, now,
                   listed, cacheOp>>
    /\ ViewUnchanged

\* ListResponse whose except branch also removes the cache file
ListResponse_DropsCache(w) ==
    /\ threads[w].pc = "list"
    /\ \E resp \in ReleaseStatsResponses(threads[w].args[1], threads[w].args[2], listed) :
          IF resp.kind # "object"
          THEN /\ threads' = [threads EXCEPT ![w].pc = "failed"]
               /\ idleQueue' = idleQueue \o
                     <<Callback("error", w, 0, 0, <<>>),
                       Callback("spinner_stop", w, 0, 0, <<>>)>>
               /\ cacheFile' = Absent
          ELSE /\ threads' =
                     [threads EXCEPT
                        ![w].modules = Get(resp.obj, "modules", <<>>),
                        ![w].pc = IF Len(Get(resp.obj, "modules", <<>>)) = 0
                                  THEN "save" ELSE "details"]
               /\ UNCHANGED <<idleQueue, cacheFile>>
    /\ UNCHANGED <<self_release, self_language, self_stats, has_releases,
                   spinner, progress_label, status_label, now, listed, cacheOp>>
    /\ ViewUnchanged

\* the module list arrives, or get_release_stats / data.get raises and the
\* except branch of do_load queues the error and spinner.stop
ListResponse(w) ==
    /\ threads[w].pc = "list"
    /\ \E resp \in ReleaseStatsResponses(threads[w].args[1], threads[w].args[2], listed) :
          IF resp.kind # "object"
          THEN /\ threads' = [threads EXCEPT ![w].pc = "failed"]
               /\ idleQueue' = idleQueue \o
                     <<Callback("error", w, 0, 0, <<>>),
                       Callback("spinner_stop", w, 0, 0, <<>>)>>
          ELSE /\ threads' =
                     [threads EXCEPT
                        ![w].modules = Get(resp.obj, "modules", <<>>),
                        ![w].pc = IF Len(Get(resp.obj, "modules", <<>>)) = 0
                                  THEN "save" ELSE "details"]
               /\ UNCHANGED idleQueue
    /\ UNCHANGED <<self_release, self_language, self_stats, has_releases,
                   spinner, progress_label, status_label, cacheFile, now, listed, cacheOp>>
    /\ ViewUnchanged

\* AfterAttempt appending outside the try block: a pass that raised appends
\* the entry of the pass before it again
AfterAttempt_Repeat(t, r) ==
    [t EXCEPT !.results = IF r.some \/ Len(t.results) = 0
                          THEN t.results \o r.val
                          ELSE Append(t.results, t.results[Len(t.results)]),
              !.log = Append(t.log, IF r.some THEN "ok" ELSE "fail"),
              !.nDetail = t.nDetail + 1,
              !.progress = Append(t.progress, <<t.i + 1, Len(t.modules)>>),
              !.i = t.i + 1,
              !.pc = IF t.i + 1 = Len(t.modules) THEN "save" ELSE "details"]

\* AfterAttempt requesting the detail of a module a second time when the
\* first request of the sync that fails is met
AfterAttempt_Retry(t, r) ==
    IF ~r.some /\ t.nDetail = t.i
    THEN [t EXCEPT !.nDetail = t.nDetail + 1]
    ELSE [t EXCEPT !.results = t.results \o r.val,
                   !.log = Append(t.log, IF r.some THEN "ok" ELSE "fail"),
                   !.nDetail = t.nDetail + 1,
                   !.progress = Append(t.progress, <<t.i + 1, Len(t.modules)>>),
                   !.i = t.i + 1,
                   !.pc = IF t.i + 1 = Len(t.modules) THEN "save" ELSE "details"]

\* the worker as one pass of the loop of fetch_all_stats leaves it, given
\* the outcome r of the try block (None: it raised)
AfterAttempt(t, r) ==
    [t EXCEPT !.results = t.results \o r.val,
              !.log = Append(t.log, IF r.some THEN "ok" ELSE "fail"),
              !.nDetail = t.nDetail + 1,
              !.progress = Append(t.progress, <<t.i + 1, Len(t.modules)>>),
              !.i = t.i + 1,
              !.pc = IF t.i + 1 = Len(t.modules) THEN "save" ELSE "details"]

\* AfterSkip going on to the same module again
AfterSkip_Stuck(t) == t

\* the worker as a pass leaves it for a module listed without stats path
AfterSkip(t) ==
    [t EXCEPT !.log = Append(t.log, "skip"),
              !.i = t.i + 1,
              !.pc = IF t.i + 1 = Len(t.modules) THEN "save" ELSE "details"]

\* one pass of the loop of fetch_all_stats
DetailStep(w) ==
    /\ threads[w].pc = "details"
    /\ LET t == threads[w]
           m == t.modules[t.i + 1]
           stats_path == Get(m, "stats", NoPath)
       IN  IF stats_path = NoPath
           THEN /\ threads' = [threads EXCEPT ![w] = AfterSkip(t)]
                /\ UNCHANGED idleQueue
           ELSE \E d \in DetailResponses(stats_path) :
                   /\ threads' = [threads EXCEPT ![w] =
                                     AfterAttempt(t, DetailStats(m, d, t.args[2]))]
                   /\ idleQueue' = Append(idleQueue,
                         Callback("progress", w, t.i + 1, Len(t.modules), <<>>))
    /\ UNCHANGED <<self_release, self_language, self_stats, has_releases,
                   spinner, progress_label, status_label, cacheFile, now, listed, cacheOp>>
    /\ ViewUnchanged

\* OpenCache saving no entry of a result set that lacks a listed module
OpenCache_CompleteOnly(w) ==
    /\ threads[w].pc = "save"
    /\ threads' = [threads EXCEPT
                     ![w].pc = "dump",
                     ![w].data = CacheData(self_release, self_language,
                                           IF Len(threads[w].results) = Len(threads[w].modules)
                                           THEN threads[w].results ELSE <<>>,
                                           now),
                     ![w].orphan = FALSE,
                     ![w].nWrite = @ + 1]
    /\ cacheFile' = Truncated
    /\ UNCHANGED <<self_release, self_language, self_stats, has_releases,
                   spinner, progress_label, status_label, now,
                   idleQueue, listed, cacheOp>>
    /\ ViewUnchanged

\* save_cache(self._release, self._language, stats) builds its dict and
\* opens the cache file for writing, which empties it
OpenCache(w) ==
    /\ threads[w].pc = "save"
    /\ threads' = [threads EXCEPT
                     ![w].pc = "dump",
                     ![w].data = CacheData(self_release, self_language,
                                           threads[w].results, now),
                     ![w].orphan = FALSE,
                     ![w].nWrite = @ + 1]
    /\ cacheFile' = Truncated
    /\ UNCHANGED <<self_release, self_language, self_stats, has_releases,
                   spinner, progress_label, status_label, now,
                   idleQueue, listed, cacheOp>>
    /\ ViewUnchanged

\* what the file holds after data was written from offset 0 into content f:
\* a longer earlier document keeps its tail
Overwrite(f, data) ==
    IF f.kind = "truncated" THEN {Json(data)}
    ELSE IF f.kind = "json" /\ Len(data.stats) > Len(f.data.stats) THEN {Json(data)}
    ELSE IF f.kind = "json" /\ Len(data.stats) < Len(f.data.stats) THEN {Garbled}
    ELSE {Json(data), Garbled}

\* json.dump and close, then do_load queues _on_stats_loaded
DumpCache(w) ==
    /\ threads[w].pc = "dump"
    /\ IF threads[w].orphan
       THEN UNCHANGED cacheFile
       ELSE cacheFile' \in Overwrite(cacheFile, threads[w].data)
    /\ threads' = [threads EXCEPT ![w].pc = "done"]
    /\ idleQueue' = Append(idleQueue,
                           Callback("loaded", w, 0, 0, threads[w].results))
    /\ UNCHANGED <<self_release, self_language, self_stats, has_releases,
                   spinner, progress_label, status_label, now,
                   listed, cacheOp>>
    /\ ViewUnchanged

Next ==
    \/ OnReleasesLoaded
    \/ \E r \in Releases : OnReleaseChanged(r)
    \/ \E l \in Languages : OnLanguageChanged(l)
    \/ OnRefresh
    \/ RunIdle
    \/ \E w \in SyncIds : ThreadStart(w)
    \/ \E w \in SyncIds : ListResponse(w)
    \/ \E w \in SyncIds : DetailStep(w)
    \/ \E w \in SyncIds : OpenCache(w)
    \/ \E w \in SyncIds : DumpCache(w)

Spec == Init /\ [][Next]_vars

(***************************************************************************)
(* SpecFetch: one sync from the start of its worker thread to the last of  *)
(* its idle callbacks, the caller leaving the selection alone; the remote  *)
(* service lists any modules, with or without stats paths.                 *)
(***************************************************************************)
Shapes == UNION {[1..n -> BOOLEAN] : n \in 0..MaxModules}

InitFetch ==
    /\ \E key \in Keys :
          /\ self_release = key[1]
          /\ self_language = key[2]
          /\ threads = [w \in SyncIds |->
                          IF w = 1
                          THEN [NoThread EXCEPT !.pc = "start", !.req = key]
                          ELSE NoThread]
    /\ self_stats = <<>>
    /\ has_releases = TRUE
    /\ spinner = "spinning"
    /\ progress_label = [visible |-> TRUE, text |-> LoadingText]
    /\ status_label = "loading"
    /\ cacheFile = Absent
    /\ now = StartTime
    /\ idleQueue = <<>>
    /\ listed \in Shapes
    /\ cacheOp = NoCacheOp
    /\ DefaultView

NextFetch ==
    \/ RunIdle
    \/ \E w \in SyncIds : ThreadStart(w)
    \/ \E w \in SyncIds : ListResponse(w)
    \/ \E w \in SyncIds : DetailStep(w)
    \/ \E w \in SyncIds : OpenCache(w)
    \/ \E w \in SyncIds : DumpCache(w)

SpecFetch == InitFetch /\ [][NextFetch]_vars

\* the worker thread gets to run, every request it waits for returns or
\* raises (urlopen with timeout), and the main loop runs its idle callbacks
FairFetch ==
    /\ \A w \in SyncIds :
          /\ WF_vars(ThreadStart(w))
          /\ WF_vars(ListResponse(w))
          /\ WF_vars(DetailStep(w))
          /\ WF_vars(OpenCache(w))
          /\ WF_vars(DumpCache(w))
    /\ WF_vars(RunIdle)

SpecFetchFair == SpecFetch /\ FairFetch

(***************************************************************************)
(* SpecCache: the cache functions alone, called in any order with any      *)
(* arguments while the clock advances.                                     *)
(***************************************************************************)
\* the entry sequences written: up to MaxEntries entries, neighbours differing
EntrySeqs ==
    {[k \in 1..n |-> IF k % 2 = 1 THEN p[1] ELSE p[2]] :
        n \in 0..MaxEntries, p \in {<<EntryA, EntryB>>, <<EntryB, EntryA>>}}

UIUnchanged ==
    UNCHANGED <<self_release, self_language, self_stats, has_releases, spinner,
                progress_label, status_label, threads, idleQueue, listed,
                filter_mode, sort_key, search_text, search_active, listbox, summary>>

InitCache ==
    /\ self_release = DefaultRelease
    /\ self_language = DefaultLanguage
    /\ self_stats = <<>>
    /\ has_releases = FALSE
    /\ spinner = "hidden"
    /\ progress_label = [visible |-> FALSE, text |-> <<>>]
    /\ status_label = "loading"
    /\ cacheFile = Absent
    /\ now = 0
    /\ threads = [w \in SyncIds |-> NoThread]
    /\ idleQueue = <<>>
    /\ listed = <<>>
    /\ cacheOp = NoCacheOp
    /\ DefaultView

\* CacheWrite keeping one slot per key: a record of another key stays
CacheWrite_SlotPerKey(r, l, entries) ==
    /\ cacheFile' = IF cacheFile.kind = "json" /\ <<cacheFile.data.release, cacheFile.data.language>> # <<r, l>>
                    THEN cacheFile
                    ELSE save_cache(r, l, entries, now)
    /\ cacheOp' = [op |-> "write", key |-> <<r, l>>, max_age |-> 0,
                   entries |-> entries, result |-> None,
                   prev |-> cacheOp.op, prevKey |-> NoKey,
                   lastKey |-> <<r, l>>, lastEntries |-> entries,
                   lastTime |-> now,
                   overwritten |-> IF cacheOp.invalidated THEN NoKey ELSE cacheOp.lastKey,
                   invalidated |-> FALSE]
    /\ UNCHANGED now
    /\ UIUnchanged

\* save_cache(r, l, entries)
CacheWrite(r, l, entries) ==
    /\ cacheFile' = save_cache(r, l, entries, now)
    /\ cacheOp' = [op |-> "write", key |-> <<r, l>>, max_age |-> 0,
                   entries |-> entries, result |-> None,
                   prev |-> cacheOp.op, prevKey |-> NoKey,
                   lastKey |-> <<r, l>>, lastEntries |-> entries,
                   lastTime |-> now,
                   overwritten |-> IF cacheOp.invalidated THEN NoKey ELSE cacheOp.lastKey,
                   invalidated |-> FALSE]
    /\ UNCHANGED now
    /\ UIUnchanged

\* load_cache(r, l, max_age)
CacheRead(r, l, max_age) ==
    /\ cacheOp' = [cacheOp EXCEPT
                     !.op = "read", !.key = <<r, l>>, !.max_age = max_age,
                     !.entries = IF cacheOp.op = "write" THEN cacheOp.entries ELSE <<>>,
                     !.result = load_cache(cacheFile, r, l, max_age, now),
                     !.prev = cacheOp.op,
                     !.prevKey = IF cacheOp.op = "write" THEN cacheOp.key ELSE NoKey]
    /\ UNCHANGED <<cacheFile, now>>
    /\ UIUnchanged

\* CacheUnlink sparing the record written in this very second
CacheUnlink_SparesNew ==
    /\ cacheFile' = IF cacheFile.kind = "json" /\ cacheFile.data.timestamp = now
                    THEN cacheFile ELSE Absent
    /\ cacheOp' = [NoCacheOp EXCEPT !.op = "unlink", !.prev = cacheOp.op,
                                    !.invalidated = TRUE,
                                    !.lastKey = cacheOp.lastKey,
                                    !.lastEntries = cacheOp.lastEntries,
                                    !.lastTime = cacheOp.lastTime]
    /\ UNCHANGED now
    /\ UIUnchanged

\* the invalidation of _on_refresh: unlink the file if it exists
CacheUnlink ==
    /\ cacheFile' = Absent
    /\ cacheOp' = [NoCacheOp EXCEPT !.op = "unlink", !.prev = cacheOp.op,
                                    !.invalidated = TRUE,
                                    !.lastKey = cacheOp.lastKey,
                                    !.lastEntries = cacheOp.lastEntries,
                                    !.lastTime = cacheOp.lastTime]
    /\ UNCHANGED now
    /\ UIUnchanged

\* a second passes
CacheTick ==
    /\ now < MaxNow
    /\ now' = now + 1
    /\ cacheOp' = [cacheOp EXCEPT
                     !.op = "tick", !.key = NoKey, !.max_age = 0,
                     !.entries = <<>>, !.result = None,
                     !.prev = cacheOp.op, !.prevKey = NoKey]
    /\ UNCHANGED cacheFile
    /\ UIUnchanged

NextCache ==
    \/ \E r \in Releases, l \in Languages, e \in EntrySeqs : CacheWrite(r, l, e)
    \/ \E r \in Releases, l \in Languages, a \in (-1)..MaxAge : CacheRead(r, l, a)
    \/ \E r \in Releases, l \in Languages : CacheRead(r, l, CacheTtl)
    \/ CacheUnlink
    \/ CacheTick

SpecCache == InitCache /\ [][NextCache]_vars

(***************************************************************************)
(* SpecResync: one sync started over the view of an earlier one: the       *)
(* window shows the stats set that sync wrote to the cache, and the record *)
(* is of another selection, has expired, holds no entry or was removed by  *)
(* a refresh.  cacheOp holds that earlier write.                           *)
(***************************************************************************)
\* when the earlier sync wrote: too long ago to be fresh, or 10 s ago
EarlierTimes == {0, StartTime - 10}

InitResync ==
    /\ self_stats \in EntrySeqs
    /\ \E key \in Keys, t0 \in EarlierTimes, gone \in BOOLEAN :
          /\ self_release = key[1]
          /\ self_language = key[2]
          /\ threads = [w \in SyncIds |->
                          IF w = 1
                          THEN [NoThread EXCEPT !.pc = "start", !.req = key]
                          ELSE NoThread]
          /\ cacheFile = IF gone THEN Absent
                         ELSE save_cache(DefaultRelease, DefaultLanguage, self_stats, t0)
          /\ ~Truthy(load_cache(cacheFile, key[1], key[2], CacheTtl, StartTime))
          /\ cacheOp = [NoCacheOp EXCEPT
                          !.op = IF gone THEN "unlink" ELSE "write",
                          !.key = IF gone THEN NoKey ELSE <<DefaultRelease, DefaultLanguage>>,
                          !.entries = IF gone THEN <<>> ELSE self_stats,
                          !.prev = IF gone THEN "write" ELSE "none",
                          !.lastKey = <<DefaultRelease, DefaultLanguage>>,
                          !.lastEntries = self_stats,
                          !.lastTime = t0,
                          !.invalidated = gone]
    /\ has_releases = TRUE
    /\ spinner = "spinning"
    /\ progress_label = [visible |-> TRUE, text |-> LoadingText]
    /\ status_label = "view"
    /\ now = StartTime
    /\ idleQueue = <<>>
    /\ listed \in Shapes
    /\ filter_mode = "all"
    /\ sort_key = "pct_asc"
    /\ search_text = ""
    /\ search_active = FALSE
    /\ listbox = update_view(self_stats, "all", <<>>, "pct_asc")
    /\ summary = Some(Summary(self_stats))

SpecResync == InitResync /\ [][NextFetch]_vars

(***************************************************************************)
(* SpecCorrupt: load_cache on a cache file that save_cache did not write:  *)
(* cut short, not JSON, not an object, or an object that lacks members or  *)
(* holds entries ModuleStats was never built from.                         *)
(***************************************************************************)
\* the contents, for a record of the default selection stamped t
MalformedFiles(t) ==
    <<Truncated,
      Garbled,
      [kind |-> "array"],
      Json([language |-> DefaultLanguage, timestamp |-> t,
            stats |-> <<asdict(EntryA)>>]),
      Json([release |-> DefaultRelease, timestamp |-> t,
            stats |-> <<asdict(EntryA)>>]),
      Json([release |-> DefaultRelease, language |-> DefaultLanguage,
            stats |-> <<asdict(EntryA)>>]),
      Json([release |-> DefaultRelease, language |-> DefaultLanguage,
            timestamp |-> t]),
      Json([release |-> DefaultRelease, language |-> DefaultLanguage,
            timestamp |-> t,
            stats |-> <<asdict(EntryA), [module |-> "gtk", branch |-> "main", pct |-> 100]>>]),
      Json([release |-> DefaultRelease, language |-> DefaultLanguage,
            timestamp |-> t,
            stats |-> <<[branch |-> "main", translated |-> 3]>>]),
      Json([release |-> DefaultRelease, language |-> DefaultLanguage,
            timestamp |-> t,
            stats |-> <<[asdict(EntryA) EXCEPT !.translated = "many"]>>])>>

InitCorrupt ==
    /\ self_release = DefaultRelease
    /\ self_language = DefaultLanguage
    /\ self_stats = <<>>
    /\ has_releases = FALSE
    /\ spinner = "hidden"
    /\ progress_label = [visible |-> FALSE, text |-> <<>>]
    /\ status_label = "loading"
    /\ cacheFile = Absent
    /\ now = StartTime
    /\ threads = [w \in SyncIds |-> NoThread]
    /\ idleQueue = <<>>
    /\ listed = <<>>
    /\ cacheOp = NoCacheOp
    /\ DefaultView

\* something other than save_cache leaves content k in the cache file
CorruptFile(k) ==
    /\ cacheFile' = MalformedFiles(now)[k]
    /\ cacheOp' = [NoCacheOp EXCEPT !.op = "corrupt", !.prev = cacheOp.op]
    /\ UNCHANGED now
    /\ UIUnchanged

NextCorrupt ==
    \/ \E k \in 1..Len(MalformedFiles(now)) : CorruptFile(k)
    \/ \E r \in Releases, l \in Languages, a \in (-1)..MaxAge : CacheRead(r, l, a)
    \/ \E r \in Releases, l \in Languages : CacheRead(r, l, CacheTtl)
    \/ CacheUnlink

SpecCorrupt == InitCorrupt /\ [][NextCorrupt]_vars

(***************************************************************************)
(* SpecView: the window with a loaded stats set, the user changing the     *)
(* sort order, the filter and the search.                                  *)
(***************************************************************************)
SORT_OPTIONS ==
    <<"pct_asc", "pct_desc", "name_asc", "name_desc", "untrans_desc",
      "fuzzy_desc", "total_desc", "state">>

FilterModes == {"all", "incomplete", "complete", "fuzzy", "state_translated"}

\* what the user types into the search entry
SearchTexts == {"", " ", "N", " li "}

\* the entries a sync may have loaded
ViewPool ==
    {ModuleStats("gtk", "main", "po", "sv", 10, 0, 0, "Translated", "", ""),
     ModuleStats("Nautilus", "main", "po", "sv", 3, 1, 2, "", "", ""),
     ModuleStats("glib", "main", "po", "sv", 0, 0, 0, "translated", "", ""),
     ModuleStats("gnome-shell", "main", "po", "sv", 5, 0, 5, "zzzz", "", ""),
     ModuleStats("gtk", "gtk-3", "po", "sv", 4, 2, 0, "proofread", "", "")}

StatSeqs == UNION {[1..n -> ViewPool] : n \in 0..MaxRows}

\* a loaded set of five entries, translated 10, 0, 5, 0, 3 of 10, 10, 5, 10, 3
SummaryExample ==
    <<ModuleStats("gtk", "main", "po", "sv", 10, 0, 0, "Translated", "", ""),
      ModuleStats("Nautilus", "main", "po", "sv", 0, 4, 6, "", "", ""),
      ModuleStats("glib", "main", "po", "sv", 5, 0, 0, "translated", "", ""),
      ModuleStats("gnome-shell", "main", "po", "sv", 0, 0, 10, "zzzz", "", ""),
      ModuleStats("gtk", "gtk-3", "po", "sv", 3, 0, 0, "proofread", "", "")>>

InitView ==
    /\ self_release = DefaultRelease
    /\ self_language = DefaultLanguage
    /\ self_stats \in StatSeqs \cup {SummaryExample}
    /\ has_releases = TRUE
    /\ spinner = "hidden"
    /\ progress_label = [visible |-> FALSE, text |-> LoadingText]
    /\ status_label = "view"
    /\ cacheFile = Absent
    /\ now = StartTime
    /\ threads = [w \in SyncIds |-> NoThread]
    /\ idleQueue = <<>>
    /\ listed = <<>>
    /\ cacheOp = NoCacheOp
    /\ filter_mode = "all"
    /\ sort_key = "pct_asc"
    /\ search_text = ""
    /\ search_active = FALSE
    /\ listbox = update_view(self_stats, "all", <<>>, "pct_asc")
    /\ summary = Some(Summary(self_stats))

SyncUnchanged ==
    UNCHANGED <<self_release, self_language, self_stats, has_releases, spinner,
                progress_label, status_label, cacheFile, now, threads,
                idleQueue, listed, cacheOp>>

\* _on_sort_changed: the dropdown selects SORT_OPTIONS[idx]
OnSortChanged(idx) ==
    /\ idx \in 1..Len(SORT_OPTIONS)
    /\ sort_key' = SORT_OPTIONS[idx]
    /\ UpdateView(self_stats, filter_mode,
                              Query(search_text, search_active), SORT_OPTIONS[idx])
    /\ UNCHANGED <<filter_mode, search_text, search_active>>
    /\ SyncUnchanged

\* _on_filter_changed for the filter button of mode, which became active
OnFilterChanged(mode) ==
    /\ filter_mode' = mode
    /\ UpdateView(self_stats, mode,
                              Query(search_text, search_active), sort_key)
    /\ UNCHANGED <<sort_key, search_text, search_active>>
    /\ SyncUnchanged

\* _on_search_toggled: opening the search bar shows nothing anew; closing
\* it, the search bar empties its entry and the view is rebuilt
OnSearchToggled ==
    /\ search_active' = ~search_active
    /\ IF search_active
       THEN /\ search_text' = ""
            /\ UpdateView(self_stats, filter_mode, <<>>, sort_key)
       ELSE UNCHANGED <<search_text, listbox, summary>>
    /\ UNCHANGED <<filter_mode, sort_key>>
    /\ SyncUnchanged

\* _on_search_changed: the user edited the text of the open search entry
OnSearchChanged(text) ==
    /\ search_active
    /\ search_text' = text
    /\ UpdateView(self_stats, filter_mode, Query(text, TRUE), sort_key)
    /\ UNCHANGED <<filter_mode, sort_key, search_active>>
    /\ SyncUnchanged

NextView ==
    \/ \E idx \in 1..Len(SORT_OPTIONS) : OnSortChanged(idx)
    \/ \E mode \in FilterModes : OnFilterChanged(mode)
    \/ OnSearchToggled
    \/ \E text \in SearchTexts : OnSearchChanged(text)

SpecView == InitView /\ [][NextView]_vars

(***************************************************************************)
(* The cache contract (SpecCache).                                         *)
(***************************************************************************)
\* the file holds a record: a JSON object whose entries are ModuleStats
IsRecord(f) ==
    /\ f.kind = "json"
    /\ {"release", "language", "timestamp", "stats"} \subseteq DOMAIN f.data
    /\ \A k \in 1..Len(f.data.stats) : DOMAIN f.data.stats[k] = FieldNames

\* the file holds a record for (r, l) that is at most max_age old at time t
FreshRecord(f, r, l, max_age, t) ==
    /\ IsRecord(f)
    /\ f.data.release = r
    /\ f.data.language = l
    /\ t - f.data.timestamp <= max_age

\* C1: a read returns the stored entries if and only if a record exists,
\* its release and language equal the requested ones and its age is at
\* most max_age; in every other case it returns "no cache".
C1_ReadIffFresh ==
    cacheOp.op = "read" =>
        IF FreshRecord(cacheFile, cacheOp.key[1], cacheOp.key[2], cacheOp.max_age, now)
        THEN cacheOp.result = Some(cacheFile.data.stats)
        ELSE cacheOp.result = None

\* a record of age exactly max_age, with entries, was read and returned
C1_Witness ==
    /\ cacheOp.op = "read"
    /\ cacheOp.max_age = MaxAge
    /\ cacheFile.kind = "json"
    /\ now - cacheFile.data.timestamp = cacheOp.max_age
    /\ cacheOp.result.some
    /\ Len(cacheOp.result.val) > 0

\* C2: write(r, l, entries) followed immediately by read(r, l, ttl) with
\* ttl >= 0 returns entries: same order, same field values.
C2_RoundTrip ==
    (/\ cacheOp.op = "read"
     /\ cacheOp.prev = "write"
     /\ cacheOp.prevKey = cacheOp.key
     /\ cacheOp.max_age >= 0)
        => cacheOp.result = Some(cacheOp.entries)

\* two different entries were written and read back with ttl 0
C2_Witness ==
    /\ cacheOp.op = "read"
    /\ cacheOp.prev = "write"
    /\ cacheOp.prevKey = cacheOp.key
    /\ cacheOp.max_age = 0
    /\ cacheOp.entries = <<EntryB, EntryA>>
    /\ cacheOp.result.some

\* a record was written and no unlink followed
Stored == cacheOp.lastKey # NoKey /\ ~cacheOp.invalidated

\* C14: the cache is one global slot: after any writes the file holds the
\* snapshot of the most recent write and nothing else; after a write for
\* one key was followed by a write for another key, a read for the first
\* key misses whatever the ttl and a read for the second returns the
\* second write's entries while they are fresh.
C14_SingleSlot ==
    /\ cacheFile = IF Stored
                   THEN Json(CacheData(cacheOp.lastKey[1], cacheOp.lastKey[2],
                                       cacheOp.lastEntries, cacheOp.lastTime))
                   ELSE Absent
    /\ (/\ cacheOp.op = "read"
        /\ Stored
        /\ cacheOp.overwritten \notin {NoKey, cacheOp.lastKey}) =>
          /\ cacheOp.key = cacheOp.overwritten => cacheOp.result = None
          /\ (/\ cacheOp.key = cacheOp.lastKey
              /\ now - cacheOp.lastTime <= cacheOp.max_age)
                => cacheOp.result = Some(cacheOp.lastEntries)

\* entries were written for one key, then for another key, and a read for
\* the first key with the longest ttl missed
C14_Witness ==
    /\ cacheOp.op = "read"
    /\ Stored
    /\ cacheOp.overwritten \notin {NoKey, cacheOp.lastKey}
    /\ cacheOp.key = cacheOp.overwritten
    /\ cacheOp.max_age = CacheTtl
    /\ Len(cacheOp.lastEntries) > 0
    /\ cacheOp.result = None

\* C15: after write(r, l, X), a read for a key that differs from (r, l) in
\* release or in language returns "no cache", for every ttl.
C15_KeyIsolation ==
    (/\ cacheOp.op = "read"
     /\ cacheOp.lastKey # NoKey
     /\ cacheOp.key # cacheOp.lastKey)
        => cacheOp.result = None

\* write("gnome-49", "sv", X) followed at once by the read of
\* ("gnome-49", "de") with the longest ttl, which missed
C15_Witness ==
    /\ cacheOp.op = "read"
    /\ cacheOp.prev = "write"
    /\ cacheOp.lastKey = <<"gnome-49", "sv">>
    /\ cacheOp.key = <<"gnome-49", "de">>
    /\ cacheOp.max_age = CacheTtl
    /\ Len(cacheOp.lastEntries) > 0
    /\ cacheOp.result = None

\* C16: the invalidation removes the file whatever record it holds, also
\* when there is none, and every read after it misses until the next
\* write.
C16_InvalidateThenMiss ==
    cacheOp.invalidated =>
        /\ cacheFile = Absent
        /\ cacheOp.op = "read" => cacheOp.result = None

\* a record was unlinked and a read for its key, at an age and a ttl for
\* which the record would have been fresh, missed
C16_Witness ==
    /\ cacheOp.op = "read"
    /\ cacheOp.invalidated
    /\ cacheOp.key = cacheOp.lastKey
    /\ now - cacheOp.lastTime <= cacheOp.max_age
    /\ Len(cacheOp.lastEntries) > 0
    /\ cacheOp.result = None

(***************************************************************************)
(* The sync orchestration (Spec).                                          *)
(***************************************************************************)
\* a step in which the caller requests a sync for the selection it leaves
SyncRequest ==
    \/ OnReleasesLoaded
    \/ \E r \in Releases : OnReleaseChanged(r)
    \/ \E l \in Languages : OnLanguageChanged(l)

\* C3: a sync requested while the cache holds a fresh record for exactly
\* its key ends with the cached entries as its result and starts no fetch,
\* whatever the entries of the record are (also none).
C3_FreshRecordIsServed ==
    [][(SyncRequest /\ FreshRecord(cacheFile, self_release', self_language', CacheTtl, now))
          => (self_stats' = cacheFile.data.stats /\ Started(threads') = Started(threads))]_vars

\* the key save_cache was called with by a sync that wrote
WrittenKey(t) == <<t.data.release, t.data.language>>

\* C4: every cache write of a sync is keyed by the (release, language) the
\* sync was requested for and whose module list it fetched.
C4_WriteKeyedByRequest ==
    \A w \in SyncIds :
        threads[w].nWrite > 0 =>
            /\ WrittenKey(threads[w]) = threads[w].req
            /\ WrittenKey(threads[w]) = threads[w].args

\* C5: a sync abandoned in FetchingDetails (the caller requested another
\* target) performs no cache write.
C5_AbandonedWritesNothing ==
    \A w \in SyncIds : threads[w].abandonedAt >= 0 => threads[w].nWrite = 0

\* C6: a sync abandoned in FetchingDetails issues at most the detail
\* request in progress when it was abandoned, and none after it.
C6_AbandonedStopsRequests ==
    \A w \in SyncIds :
        threads[w].abandonedAt >= 0 =>
            threads[w].nDetail <= threads[w].abandonedAt + 1

\* C7: at most one sync is in flight: a second one for the same target is
\* never started, and one for another target cancels the one in flight.
C7_OneSyncInFlight == Cardinality(InFlight(threads)) <= 1

(***************************************************************************)
(* The fetch pipeline (SpecFetch).                                         *)
(***************************************************************************)
LoopCompleted(t) == t.pc \in {"save", "dump", "done"}

\* C8: when the loop completes, one progress notification was emitted per
\* listed module, with strictly increasing completed counts, the last one
\* being (total_count, total_count).
C8_ProgressPerModule ==
    \A w \in SyncIds :
        LoopCompleted(threads[w]) =>
            LET p == threads[w].progress
                n == Len(threads[w].modules)
            IN  /\ Len(p) = n
                /\ \A k \in 1..(Len(p) - 1) : p[k][1] < p[k + 1][1]
                /\ n > 0 => p[Len(p)] = <<n, n>>

\* the positions of the listed modules whose detail fetch succeeded, in
\* list order
OkIndices(log) ==
    LET IsOk(k) == log[k] = "ok"
    IN  SelectSeq([k \in 1..Len(log) |-> k], IsOk)

\* the ModuleStats of listed module m, fetched for language l
StatsOf(m, l) == DetailStats(m, Object(DetailDocument(m["stats"])), l).val[1]

\* C9: a failing detail fetch never aborts the sync: a sync fails only
\* before its first detail attempt, and the result set of a completed loop
\* is the ModuleStats of the modules whose fetch succeeded, in list order,
\* each once, the failing ones omitted.
C9_ResultIsSuccessesInOrder ==
    \A w \in SyncIds :
        LET t == threads[w]
            ok == OkIndices(t.log)
        IN  /\ t.pc = "failed" => t.log = <<>>
            /\ LoopCompleted(t) =>
                  /\ Len(t.log) = Len(t.modules)
                  /\ t.results = [j \in 1..Len(ok) |-> StatsOf(t.modules[ok[j]], t.args[2])]

\* a sync completed whose first detail fetch failed and whose second one
\* succeeded
C9_Witness ==
    \E w \in SyncIds :
        /\ threads[w].pc = "done"
        /\ threads[w].log = <<"fail", "ok">>
        /\ Len(threads[w].results) = 1

\* the callbacks of kind cb that sync w has queued and the main loop has
\* not run yet
Pending(w, cb) ==
    Cardinality({k \in 1..Len(idleQueue) :
                    idleQueue[k].sync = w /\ idleQueue[k].cb = cb})

\* C10: a sync whose module-list request failed surfaces exactly one
\* error, delivers no result set, issues no detail request and writes no
\* cache.
C10_ListFailure ==
    \A w \in SyncIds :
        threads[w].pc = "failed" =>
            /\ threads[w].nErr + Pending(w, "error") = 1
            /\ threads[w].nLoaded + Pending(w, "loaded") = 0
            /\ threads[w].nDetail = 0
            /\ threads[w].nWrite = 0
            /\ cacheFile = Absent

\* a failed sync whose error the main loop has shown
C10_Witness ==
    \E w \in SyncIds :
        /\ threads[w].pc = "failed"
        /\ threads[w].nErr = 1
        /\ status_label = "error"
        /\ idleQueue = <<>>

\* the result set of sync w was handed to the main loop
Delivered(w) == threads[w].nLoaded + Pending(w, "loaded") > 0

\* C11: a sync that missed the cache and completed its detail loop writes
\* the cache exactly once, before its result set is delivered, with exactly
\* the accumulated result set, also when per-module failures made it
\* partial.
C11_WriteOnceBeforeDone ==
    \A w \in SyncIds :
        LET t == threads[w]
        IN  /\ t.nWrite <= 1
            /\ t.pc = "save" => t.nWrite = 0
            /\ (t.pc = "done" \/ Delivered(w)) =>
                  /\ t.nWrite = 1
                  /\ cacheFile = save_cache(t.req[1], t.req[2], t.results, now)

\* two modules listed, the second detail fetch failed: the one entry was
\* saved and then delivered
C11_Witness ==
    \E w \in SyncIds :
        /\ threads[w].pc = "done"
        /\ threads[w].log = <<"ok", "fail">>
        /\ threads[w].nLoaded = 1
        /\ cacheFile.kind = "json"
        /\ Len(cacheFile.data.stats) = 1

\* the file content is a whole document, or there is no file
Complete(f) == f.kind \in {"absent", "json"}

\* C12: cache writes are atomic and serialized: whenever the cache is read
\* while a write is under way or writes overlap, the reader finds the
\* complete previous record, no file, or the complete new record, never a
\* partially written or mixed one.
C12_ReaderSeesWholeRecord ==
    [][SyncRequest => Complete(cacheFile)]_vars

\* C13: the progress notifications of a sync are delivered in increasing
\* completed-count order, and its result set is delivered strictly after
\* every progress notification of that sync.
C13_ProgressThenComplete ==
    \A w \in SyncIds :
        LET t == threads[w]
        IN  /\ \A k \in 1..(Len(t.shown) - 1) : t.shown[k] < t.shown[k + 1]
            /\ t.nLoaded > 0 =>
                  /\ Pending(w, "progress") = 0
                  /\ t.pc = "done"
                  /\ t.shown = [k \in 1..Len(t.progress) |-> t.progress[k][1]]

\* a sync that emitted two progress notifications has delivered both and
\* then its result set
C13_Witness ==
    \E w \in SyncIds :
        /\ threads[w].nLoaded = 1
        /\ threads[w].shown = <<1, 2>>
        /\ progress_label.text = ProgressText(2, 2)

\* the listed modules whose detail the sync has requested
Requested(t) == {k \in 1..Len(t.log) : t.log[k] # "skip"}

\* C18: nothing is retried: a sync requests the module list at most once
\* and the detail of each listed module at most once, whether the request
\* succeeded or failed, and after a failed sync no request is issued and no
\* sync is started unless the caller asks for one.
C18_NoRetry ==
    \A w \in SyncIds :
        LET t == threads[w]
        IN  /\ t.nList <= 1
            /\ Len(t.log) = t.i
            /\ t.i <= Len(t.modules)
            /\ t.nDetail = Cardinality(Requested(t))
            /\ t.pc = "failed" =>
                  /\ t.nList = 1
                  /\ t.nDetail = 0
                  /\ Started(threads) = {w}

\* a sync of two modules finished after both detail requests had failed:
\* one list request, two detail requests
C18_Witness ==
    \E w \in SyncIds :
        /\ threads[w].pc = "done"
        /\ threads[w].log = <<"fail", "fail">>
        /\ threads[w].nList = 1
        /\ threads[w].nDetail = 2

(***************************************************************************)
(* Malformed cache content (SpecCorrupt).                                  *)
(***************************************************************************)
\* C17: a read of the cache never raises: with no file, with content that
\* is not JSON or not an object, with a record lacking members or holding
\* wrongly typed ones, or with an entry no ModuleStats can be made of,
\* the read returns "no cache" (under SpecCorrupt the file never holds
\* anything else).
C17_MalformedIsNoCache ==
    cacheOp.op = "read" => cacheOp.result = None

(***************************************************************************)
(* The view model (SpecView).                                              *)
(***************************************************************************)
\* C19: the sort by state puts every entry with an empty state after every
\* entry with a non-empty state, whatever the non-empty states are, and
\* orders the entries with a state among themselves by state, ignoring
\* case.
C19_EmptyStateLast ==
    sort_key = "state" =>
        \A i, j \in 1..Len(listbox) :
            i < j =>
                /\ ~(listbox[i].state = "" /\ listbox[j].state # "")
                /\ (listbox[i].state # "" /\ listbox[j].state # "") =>
                      ~StrLess(Lower(Chars(listbox[j].state)),
                               Lower(Chars(listbox[i].state)))

\* the number of positions at which seq holds entry e
Count(seq, e) == Cardinality({k \in 1..Len(seq) : seq[k] = e})

\* entry s satisfies filter mode mode and contains the characters q, both
\* taken in lower case, unless q is empty
Selected(s, mode, q) ==
    /\ mode = "incomplete" => ~(s.fuzzy = 0 /\ s.untranslated = 0 /\ total(s) > 0)
    /\ mode = "complete" => (s.fuzzy = 0 /\ s.untranslated = 0 /\ total(s) > 0)
    /\ mode = "fuzzy" => s.fuzzy > 0
    /\ mode = "state_translated" => Lower(Chars(s.state)) = Lower(Chars("translated"))
    /\ q # <<>> => Contains(Lower(Chars(s.module)), Lower(q))

\* the listbox shows exactly the entries of the stats set that q selects
ShowsSelected(q) ==
    /\ \A k \in 1..Len(listbox) : Count(self_stats, listbox[k]) > 0
    /\ \A k \in 1..Len(self_stats) :
          Count(listbox, self_stats[k]) =
              IF Selected(self_stats[k], filter_mode, q)
              THEN Count(self_stats, self_stats[k]) ELSE 0

\* C20 as stated: the displayed sequence holds exactly the entries that
\* satisfy the filter mode and, for a non-empty query, whose module name
\* contains the query ignoring case, the query being the text searched for.
C20_ShowsFilteredByText ==
    search_active => ShowsSelected(Chars(search_text))

\* C20 as amended: the query is the search text without the whitespace
\* around it; a text of whitespace alone filters nothing.
C20_ShowsFilteredByQuery ==
    ShowsSelected(IF search_active THEN Strip(Chars(search_text)) ELSE <<>>)

\* the search for " li " shows glib alone out of two entries
C20_Witness ==
    /\ search_active
    /\ search_text = " li "
    /\ filter_mode = "incomplete"
    /\ Len(self_stats) = 2
    /\ Len(listbox) = 1
    /\ listbox[1].module = "glib"

\* the units of field, taken over all entries of stats: one pair per unit
Units(stats, field) ==
    {<<k, u>> \in (1..Len(stats)) \X (1..10) : u <= stats[k][field]}

\* C21: the summary shown is that of the full stats set, whatever the filter
\* mode, the query and the sort key are: the number of entries, the number
\* of complete ones, the three totals, and the percentage translated of
\* their sum, 0 when the sum is 0 (18/38 for the five entries of the example)
C21_SummaryOfFullSet ==
    LET S == summary.val
        trans == Cardinality(Units(self_stats, "translated"))
        fuzzy == Cardinality(Units(self_stats, "fuzzy"))
        untrans == Cardinality(Units(self_stats, "untranslated"))
    IN  /\ summary.some
        /\ S.modules = Len(self_stats)
        /\ S.complete = Cardinality({k \in 1..Len(self_stats) :
                                        /\ self_stats[k].fuzzy = 0
                                        /\ self_stats[k].untranslated = 0
                                        /\ self_stats[k].translated > 0})
        /\ S.total_trans = trans
        /\ S.total_fuzzy = fuzzy
        /\ S.total_untrans = untrans
        /\ S.total_all = trans + fuzzy + untrans
        /\ S.pct.den > 0
        /\ IF trans + fuzzy + untrans > 0
           THEN S.pct.num * (trans + fuzzy + untrans) = trans * 100 * S.pct.den
           ELSE S.pct.num = 0
        /\ self_stats = SummaryExample => S.pct.num * 38 = 18 * 100 * S.pct.den

C21_Witness ==
    /\ self_stats = SummaryExample
    /\ filter_mode = "complete"
    /\ sort_key = "name_desc"
    /\ search_active
    /\ search_text = "N"
    /\ Len(listbox) = 0
    /\ summary.val.modules = 5

\* the list _update_view hands to _sort_stats: the entries that pass the filters
SortInput == filtered(self_stats, filter_mode, Query(search_text, search_active))

\* the ways to rearrange n entries
Rearrangements(n) ==
    {f \in [1..n -> 1..n] : \A p, q \in 1..n : p # q => f[p] # f[q]}

\* C22: under every sort key the rows are a rearrangement of the list that
\* was sorted, no row comes after one that its key puts it before, and rows
\* of equal key keep the order they had in that list, under the descending
\* keys as under the ascending ones
C22_SortIsStablePermutation ==
    /\ Len(listbox) = Len(SortInput)
    /\ \E f \in Rearrangements(Len(listbox)) :
          /\ \A p \in 1..Len(listbox) : listbox[p] = SortInput[f[p]]
          /\ \A p, q \in 1..Len(listbox) :
                p < q =>
                    /\ ~SortsBefore(sort_key, listbox[q], listbox[p])
                    /\ ~SortsBefore(sort_key, listbox[p], listbox[q]) => f[p] < f[q]

\* two entries of equal total, sorted by total descending, in their order
C22_Witness ==
    /\ sort_key = "total_desc"
    /\ Len(self_stats) = 2
    /\ self_stats[1].module = "Nautilus"
    /\ self_stats[2].branch = "gtk-3"
    /\ listbox = self_stats

\* C23: every entry held or shown is complete exactly when it has no fuzzy
\* and no untranslated strings and has strings at all; an entry without
\* strings has percentage 0 and is not complete
C23_CompleteAndPct ==
    \A s \in {self_stats[k] : k \in 1..Len(self_stats)}
             \cup {listbox[k] : k \in 1..Len(listbox)} :
        LET n == s.translated + s.fuzzy + s.untranslated
        IN  /\ complete(s) <=> (s.fuzzy = 0 /\ s.untranslated = 0 /\ n > 0)
            /\ n = 0 => /\ pct(s).num = 0
                        /\ pct(s).den # 0
                        /\ ~complete(s)
            /\ (filter_mode = "complete" /\ n = 0) =>
                   \A k \in 1..Len(listbox) : listbox[k] # s

\* an entry without strings, left out by the filter for complete entries
C23_Witness ==
    /\ Len(self_stats) = 1
    /\ self_stats[1].module = "glib"
    /\ self_stats[1].translated + self_stats[1].untranslated = 0
    /\ filter_mode = "complete"
    /\ listbox = <<>>

\* C24: every entry of a result set, of a running sync or held for display,
\* has translated, fuzzy and untranslated counts of 0 or more, whatever
\* integers the detail responses carry
C24_CountsNonNegative ==
    \A st \in {threads[w].results : w \in SyncIds} \cup {self_stats} :
        \A k \in 1..Len(st) :
            /\ st[k].translated >= 0
            /\ st[k].fuzzy >= 0
            /\ st[k].untranslated >= 0

\* C25: the filter mode all keeps the stats set as it is, the same entries
\* in the same order, and the filter for incomplete entries leaves nothing
\* of what the filter for complete entries lets through, for the stats set
\* held and for the rows shown under the filter for complete entries
C25_FilterAlgebra ==
    /\ filtered(self_stats, "all", <<>>) = self_stats
    /\ filtered(filtered(self_stats, "complete", <<>>), "incomplete", <<>>) = <<>>
    /\ (filter_mode = "all" /\ Query(search_text, search_active) = <<>>) =>
            /\ Len(listbox) = Len(self_stats)
            /\ \A k \in 1..Len(self_stats) :
                   Count(listbox, self_stats[k]) = Count(self_stats, self_stats[k])
    /\ filter_mode = "complete" => filtered(listbox, "incomplete", <<>>) = <<>>

\* a complete and an incomplete entry under the filter for complete entries
C25_Witness ==
    /\ Len(self_stats) = 2
    /\ self_stats[1].translated = 5
    /\ self_stats[2].translated = 10
    /\ filter_mode = "complete"
    /\ ~search_active
    /\ Len(listbox) = 1
    /\ listbox[1].translated = 10

(***************************************************************************)
(* Syncs and the selection (Spec).                                         *)
(***************************************************************************)
\* the sync started last
LastStarted == Cardinality(Started(threads))

\* C26: once no sync is in flight and no callback is waiting, the last
\* started sync having succeeded, every entry held for display is one of
\* the selected release and language (the service files each entry under
\* the release and the language it was asked for)
C26_DisplayedIsForSelection ==
    (/\ InFlight(threads) = {}
     /\ idleQueue = <<>>
     /\ LastStarted > 0
     /\ threads[LastStarted].pc = "done") =>
        \A k \in 1..Len(self_stats) :
            /\ self_stats[k].branch = self_release
            /\ self_stats[k].language = self_language

(***************************************************************************)
(* A sync over an earlier view (SpecResync).                               *)
(***************************************************************************)
\* the cache file as the earlier sync, and a refresh if there was one, left it
EarlierCache ==
    IF cacheOp.invalidated THEN Absent
    ELSE save_cache(cacheOp.lastKey[1], cacheOp.lastKey[2],
                    cacheOp.lastEntries, cacheOp.lastTime)

\* C27: a sync that ended in Failed has left the cache file and the stats
\* set held for display as they were when it started, no other sync having
\* run: before and after the main loop has shown its error
C27_FailedChangesNothing ==
    \A w \in SyncIds :
        threads[w].pc = "failed" =>
            /\ cacheFile = EarlierCache
            /\ self_stats = cacheOp.lastEntries
            /\ listbox = update_view(cacheOp.lastEntries, "all", <<>>, "pct_asc")

\* a failed sync, its error shown, over a view of two entries and their
\* expired record
C27_Witness ==
    /\ threads[1].pc = "failed"
    /\ threads[1].nErr = 1
    /\ idleQueue = <<>>
    /\ Len(self_stats) = 2
    /\ cacheFile.kind = "json"
    /\ cacheFile.data.timestamp = 0

(***************************************************************************)
(* Termination (SpecFetchFair).                                            *)
(***************************************************************************)
\* sync w ended, Done or Failed, and the main loop has run its callbacks
Terminated(w) ==
    /\ threads[w].pc \in {"done", "failed"}
    /\ Pending(w, "progress") + Pending(w, "loaded") = 0
    /\ Pending(w, "error") + Pending(w, "spinner_stop") = 0

\* C28: every started sync ends, Done or Failed, and its callbacks are run,
\* when the worker and the main loop get to run and every request returns
\* or raises; at no time has a sync issued more detail requests than the
\* module list it received has modules
C28_SyncTerminates ==
    /\ [](\A w \in SyncIds : threads[w].nDetail <= Len(threads[w].modules))
    /\ \A w \in SyncIds : (threads[w].pc = "start") ~> Terminated(w)

\* a sync that ended Done after one detail request for a list of two
\* modules, its result shown
C28_Witness ==
    /\ Terminated(1)
    /\ threads[1].pc = "done"
    /\ Len(threads[1].modules) = 2
    /\ threads[1].nDetail = 1
    /\ threads[1].nLoaded = 1
====
